---- MODULE Spec2Model ----
(***************************************************************************)
(* A model of life-rs (src/src/main.rs): a Game of Life on a bounded grid, *)
(* driven by GameState::update once per frame.                             *)
(*                                                                         *)
(* Grids are sequences of rows, each row a sequence of BOOLEAN.  The code  *)
(* indexes from 0; Cell(g, row, column) reads g[row][column] of the code.  *)
(* grid_params.size is the pair <<columns, rows>> (size.0, size.1).        *)
(***************************************************************************)
EXTENDS Integers, Sequences, FiniteSets, TLC

(***************************************************************************)
(* Bounds of the model and constants of the program.                       *)
(***************************************************************************)
\* GameState::new builds a 20 x 15 grid; the model starts from a smaller one.
InitCols == 2
InitRows == 2
\* The clock (time_since_start, in milliseconds) is explored up to MaxTime.
MaxTime == 20
\* Grids of the pure-function specifications have at most MaxDim rows/columns.
MaxDim == 3
\* Blinker scenarios run on grids of 5 .. MaxBlinkerDim rows and columns.
MaxBlinkerDim == 6
\* GridParams.cell_size, (20, 20): both components.
CellWidth == 20
CellHeight == 20
\* GameState.update_tick, Duration::from_millis(10).
UpdateTickMs == 10

cell_size == <<CellWidth, CellHeight>>

(***************************************************************************)
(* Grid helpers.                                                           *)
(***************************************************************************)
\* grid_state[row][column], 0-based as in the code.
Cell(g, row, column) == g[row + 1][column + 1]

\* vec![vec![false; cols]; rows]
default_grid(size) == [r \in 1..size[2] |-> [c \in 1..size[1] |-> FALSE]]

\* Whether grid_state[row][column] is inside the vectors (else the index panics).
InBounds(g, row, column) ==
    /\ row >= 0 /\ row < Len(g)
    /\ column >= 0 /\ column < Len(g[row + 1])

(***************************************************************************)
(* update_grid_state (main.rs 143-191).                                    *)
(***************************************************************************)
INDICE_OFFSETS ==
    << <<-1, -1>>, <<0, -1>>, <<1, -1>>, <<-1, 0>>,
       <<1, 0>>, <<-1, 1>>, <<0, 1>>, <<1, 1>> >>

\* (0..size.0).contains(&x) && (0..size.1).contains(&y), lines 165-166.
in_range(size, x, y) ==
    /\ x \in 0..(size[1] - 1)
    /\ y \in 0..(size[2] - 1)

RECURSIVE living_neighbors_from(_, _, _, _, _)
\* The loop of lines 160-174 from offset number i on.
living_neighbors_from(size, g, row, column, i) ==
    IF i > Len(INDICE_OFFSETS) THEN 0
    ELSE LET x == column + INDICE_OFFSETS[i][1]
             y == row + INDICE_OFFSETS[i][2]
             here == IF in_range(size, x, y)
                       THEN (IF Cell(g, y, x) THEN 1 ELSE 0)
                       ELSE 0
         IN  here + living_neighbors_from(size, g, row, column, i + 1)

\* A mutant of living_neighbors: the neighbour indices wrap around the edges
\* (a toroidal grid).
living_neighbors_toroidal(size, g, row, column) ==
    Cardinality({ i \in 1..Len(INDICE_OFFSETS) :
        Cell(g, (row + INDICE_OFFSETS[i][2]) % size[2],
                (column + INDICE_OFFSETS[i][1]) % size[1]) })

\* living_neighbors after the loop of lines 160-174.
living_neighbors(size, g, row, column) ==
    living_neighbors_from(size, g, row, column, 1)

\* Lines 176-187: the value written to (or left in) new_state[row][column].
next_cell(is_living, n) ==
    IF is_living THEN (IF n < 2 \/ n > 3 THEN FALSE ELSE is_living)
    ELSE IF n = 3 THEN TRUE ELSE is_living

\* Whether update_grid_state panics on an index: it reads grid_state[row][column]
\* for every row < size.1 and column < size.0.
update_grid_state_panics(size, g) ==
    \E row \in 0..(size[2] - 1), column \in 0..(size[1] - 1) :
        ~InBounds(g, row, column)

RECURSIVE update_in_place_from(_, _, _)
\* A mutant of update_grid_state: the cells are rewritten in place, row by
\* row, so a cell's neighbour count sees the cells already rewritten.
update_in_place_from(size, g, k) ==
    IF k >= size[1] * size[2] THEN g
    ELSE LET row == k \div size[1]
             column == k % size[1]
         IN  update_in_place_from(
                 size,
                 [g EXCEPT ![row + 1][column + 1] =
                     next_cell(Cell(g, row, column),
                               living_neighbors(size, g, row, column))],
                 k + 1)

update_grid_state_in_place(size, g) == update_in_place_from(size, g, 0)

\* The grid update_grid_state returns (when it does not panic): a clone of
\* grid_state whose cells inside size are rewritten from the OLD grid.
update_grid_state(size, g) ==
    [r \in 1..Len(g) |->
        [c \in 1..Len(g[r]) |->
            IF r - 1 < size[2] /\ c - 1 < size[1]
              THEN next_cell(g[r][c], living_neighbors(size, g, r - 1, c - 1))
              ELSE g[r][c]]]

(***************************************************************************)
(* Grid geometry (main.rs 31-71, 126-138, 196-204).                        *)
(***************************************************************************)
\* The outcomes of `(n as f32 / d as f32) as usize` for whole n and d > 0.
\* The cast truncates toward zero, so a quotient in (-1, 0) is 0.  A quotient
\* of -1 or less saturates to 0 (Rust 1.45 and later); on an older toolchain
\* the cast is undefined there and may produce any index.
div_as_usize(n, d) ==
    IF n >= 0 THEN {n \div d}
    ELSE IF n > -d THEN {0}
    ELSE 0..MaxDim

\* Err(()) and Ok(Point2 {x, y}).
NoCell == [ok |-> FALSE, x |-> 0, y |-> 0]
OkCell(x, y) == [ok |-> TRUE, x |-> x, y |-> y]

\* Lines 133-137.
cell_result(size, x, y) ==
    IF x < size[1] /\ y < size[2] THEN OkCell(x, y) ELSE NoCell

\* calculate_grid_cell_indices: the results it can return for a point <<x, y>>.
calculate_grid_cell_indices(size, csize, point) ==
    { cell_result(size, x, y) :
        x \in div_as_usize(point[1], csize[1]),
        y \in div_as_usize(point[2], csize[2]) }

\* generate_grid_mesh: the line segments <<x1, y1, x2, y2>> given to the
\* builder, the vertical ones (lines 38-52) and the horizontal ones (54-68).
generate_grid_mesh(size, csize) ==
    [vertical |->
        [k \in 1..(size[1] + 1) |->
            <<(k - 1) * csize[1], 0, (k - 1) * csize[1], size[2] * csize[2]>>],
     horizontal |->
        [k \in 1..(size[2] + 1) |->
            <<0, (k - 1) * csize[2], size[1] * csize[1], (k - 1) * csize[2]>>]]

\* update_window_size: the dimensions handed to graphics::set_mode.
update_window_size(size, csize) == <<size[1] * csize[1], size[2] * csize[2]>>

(***************************************************************************)
(* Files.  A file's contents are either not JSON at all or a JSON array of *)
(* arrays of the tokens true, false and 0.                                 *)
(***************************************************************************)
NoFile == [json |-> FALSE, rows |-> <<>>]

\* serde_json::from_str::<Vec<Vec<bool>>>, line 289: Ok(value) when the text
\* is an array of arrays of booleans, Err otherwise.
from_str(contents) ==
    IF /\ contents.json
       /\ \A r \in 1..Len(contents.rows) : \A c \in 1..Len(contents.rows[r]) :
              contents.rows[r][c] \in {"true", "false"}
      THEN [ok |-> TRUE,
            value |-> [r \in 1..Len(contents.rows) |->
                         [c \in 1..Len(contents.rows[r]) |->
                            contents.rows[r][c] = "true"]]]
      ELSE [ok |-> FALSE, value |-> <<>>]

(***************************************************************************)
(* GameState::update (main.rs 249-322) as a function of the state record s *)
(* and of what the frame's polls and dialogs return, the record in:        *)
(*   time         timer::time_since_start, in milliseconds                 *)
(*   mouse        input::mouse::button_pressed(Left)                       *)
(*   hit          calculate_grid_cell_indices at input::mouse::position    *)
(*   s_key, l_key, ret_key   is_key_pressed(S), (L), (Return)              *)
(*   save_result  "cancel" | "create_fail" | "write_fail" | "ok"           *)
(*   load_result  "cancel" | "open_fail" | "read_fail" | "read"            *)
(*   contents     what read_to_string read                                 *)
(*   mesh_ok, window_ok   whether generate_grid_mesh and update_window_size*)
(*                return Ok                                                *)
(* s.status is "running" until a panic or an Err returned by update, which *)
(* both end the program (event::run returns the Err to main).              *)
(***************************************************************************)
Running(s) == s.status = "running"

\* A mutant of toggle_cell: the whole row of the cell is negated.
toggle_cell_whole_row(g, hit) ==
    [g EXCEPT ![hit.y + 1] = [c \in 1..Len(g[hit.y + 1]) |-> ~g[hit.y + 1][c]]]

\* Lines 258-259: grid_state[point.y][point.x] = !value.
toggle_cell(g, hit) ==
    [g EXCEPT ![hit.y + 1][hit.x + 1] = ~g[hit.y + 1][hit.x + 1]]

\* Lines 252-263: the pointer latch and the toggle.
mouse_branch(s, in) ==
    IF s.mouse_button_pressed_last_frame /\ ~in.mouse /\ in.hit.ok
      THEN IF InBounds(s.grid_state, in.hit.y, in.hit.x)
             THEN [s EXCEPT !.grid_state = toggle_cell(s.grid_state, in.hit),
                            !.mouse_button_pressed_last_frame = in.mouse]
             ELSE [s EXCEPT !.status = "panicked at main.rs:258"]
      ELSE [s EXCEPT !.mouse_button_pressed_last_frame = in.mouse]

\* Lines 265-278: the save key.
save_branch(s, in) ==
    IF ~s.save_key_pressed_last_frame /\ in.s_key /\ in.save_result = "write_fail"
      THEN [s EXCEPT !.status = "panicked at main.rs:272"]
      ELSE [s EXCEPT !.save_key_pressed_last_frame = in.s_key]

\* A mutant of load_resize: the size is updated, the mesh and the window are not.
load_resize_size_only(s, in, new_size) ==
    IF s.size # new_size THEN [s EXCEPT !.size = new_size] ELSE s

\* Lines 294-299: the size, the cached mesh and the window follow a new size.
load_resize(s, in, new_size) ==
    IF s.size # new_size
      THEN IF ~in.mesh_ok
             THEN [s EXCEPT !.size = new_size,
                            !.status = "Err from main.rs:297"]
           ELSE IF ~in.window_ok
             THEN [s EXCEPT !.size = new_size,
                            !.grid_mesh = generate_grid_mesh(new_size, cell_size),
                            !.status = "Err from main.rs:298"]
           ELSE [s EXCEPT !.size = new_size,
                          !.grid_mesh = generate_grid_mesh(new_size, cell_size),
                          !.window = update_window_size(new_size, cell_size)]
      ELSE s

\* Lines 289-302: the parsed value replaces the grid.
load_apply(s, in) ==
    LET parsed == from_str(in.contents)
        replaced == [s EXCEPT !.grid_state = parsed.value]
    IN  IF ~parsed.ok THEN s
        ELSE IF Len(parsed.value) = 0
          THEN [replaced EXCEPT !.status = "panicked at main.rs:293"]
        ELSE load_resize(replaced, in,
                         <<Len(parsed.value[1]), Len(parsed.value)>>)

\* Lines 280-308: the load key.
load_branch(s, in) ==
    LET after ==
          IF ~s.load_key_pressed_last_frame /\ in.l_key
            THEN IF in.load_result = "read_fail"
                   THEN [s EXCEPT !.status = "panicked at main.rs:287"]
                 ELSE IF in.load_result = "read" THEN load_apply(s, in)
                 ELSE s
            ELSE s
    IN  IF Running(after)
          THEN [after EXCEPT !.load_key_pressed_last_frame = in.l_key]
          ELSE after

\* Lines 251-308: the branch taken while paused.
paused_branch(s, in) ==
    LET a == mouse_branch(s, in)
        b == IF Running(a) THEN save_branch(a, in) ELSE a
    IN  IF Running(b) THEN load_branch(b, in) ELSE b

\* Lines 309-312: the branch taken while playing.  Duration's subtraction
\* panics when the result would be negative.
tick_branch(s, in) ==
    IF in.time < s.last_update
      THEN [s EXCEPT !.status = "panicked at main.rs:309"]
    ELSE IF in.time - s.last_update >= UpdateTickMs
      THEN IF update_grid_state_panics(s.size, s.grid_state)
             THEN [s EXCEPT !.status = "panicked at main.rs:168"]
             ELSE [s EXCEPT !.grid_state = update_grid_state(s.size, s.grid_state),
                            !.last_update = in.time]
    ELSE s

\* Lines 314-319: the play key.
play_key(s, in) ==
    IF ~s.play_key_pressed_last_frame /\ in.ret_key
      THEN IF in.time < UpdateTickMs
             THEN [s EXCEPT !.status = "panicked at main.rs:316"]
             ELSE [s EXCEPT !.last_update = in.time - UpdateTickMs,
                            !.playing = ~s.playing,
                            !.play_key_pressed_last_frame = in.ret_key]
      ELSE [s EXCEPT !.play_key_pressed_last_frame = in.ret_key]

\* GameState::update.
update(s, in) ==
    LET a == IF ~s.playing THEN paused_branch(s, in) ELSE tick_branch(s, in)
    IN  IF Running(a) THEN play_key(a, in) ELSE a

(***************************************************************************)
(* The state: the fields of GameState (grid_params.size as size, and the   *)
(* window dimensions last set by update_window_size), whether the program  *)
(* still runs, and what the outside world did in the last frame.           *)
(***************************************************************************)
VARIABLES
    size, grid_mesh, grid_state, playing, last_update,
    mouse_button_pressed_last_frame, save_key_pressed_last_frame,
    load_key_pressed_last_frame, play_key_pressed_last_frame,
    window, status,
    now,          \* time_since_start at the last frame
    mouse_down,   \* whether the left button really was down at the last frame
    ev,           \* what the last frame's polls and dialogs returned
    toggle_hist,  \* the last toggle, while nothing else has changed the grid
    call,         \* a direct call of a pure function and what it returned
    plan          \* the position in a scripted scenario

gameVars ==
    <<size, grid_mesh, grid_state, playing, last_update,
      mouse_button_pressed_last_frame, save_key_pressed_last_frame,
      load_key_pressed_last_frame, play_key_pressed_last_frame,
      window, status>>
worldVars == <<now, mouse_down, ev, toggle_hist>>
vars == <<gameVars, worldVars, call, plan>>

\* The GameState as a record.
Self ==
    [size |-> size, grid_mesh |-> grid_mesh, grid_state |-> grid_state,
     playing |-> playing, last_update |-> last_update,
     mouse_button_pressed_last_frame |-> mouse_button_pressed_last_frame,
     save_key_pressed_last_frame |-> save_key_pressed_last_frame,
     load_key_pressed_last_frame |-> load_key_pressed_last_frame,
     play_key_pressed_last_frame |-> play_key_pressed_last_frame,
     window |-> window, status |-> status]

\* GameState::new (lines 220-245) for a grid of the given size and cells.
GameState_new(sz, g) ==
    [size |-> sz, grid_mesh |-> generate_grid_mesh(sz, cell_size),
     grid_state |-> g, playing |-> FALSE, last_update |-> 0,
     mouse_button_pressed_last_frame |-> FALSE,
     save_key_pressed_last_frame |-> FALSE,
     load_key_pressed_last_frame |-> FALSE,
     play_key_pressed_last_frame |-> FALSE,
     window |-> update_window_size(sz, cell_size), status |-> "running"]

NoInput ==
    [time |-> 0, mouse |-> FALSE, hit |-> NoCell, s_key |-> FALSE,
     save_result |-> "none", l_key |-> FALSE, load_result |-> "none",
     contents |-> NoFile, mesh_ok |-> TRUE, window_ok |-> TRUE,
     ret_key |-> FALSE]
NoToggle == [valid |-> FALSE, cell |-> NoCell, before |-> <<>>]
NoCall ==
    [fn |-> "none", point |-> <<0, 0>>, cell_out |-> NoCell,
     grid_in |-> <<>>, grid_out |-> <<>>]
NoPlan == [row |-> 0, column |-> 0, step |-> 0]

\* The state in which the program starts with the GameState s.
StartsAs(s) ==
    /\ size = s.size /\ grid_mesh = s.grid_mesh /\ grid_state = s.grid_state
    /\ playing = s.playing /\ last_update = s.last_update
    /\ mouse_button_pressed_last_frame = s.mouse_button_pressed_last_frame
    /\ save_key_pressed_last_frame = s.save_key_pressed_last_frame
    /\ load_key_pressed_last_frame = s.load_key_pressed_last_frame
    /\ play_key_pressed_last_frame = s.play_key_pressed_last_frame
    /\ window = s.window /\ status = s.status
    /\ now = 0 /\ mouse_down = FALSE /\ ev = NoInput /\ toggle_hist = NoToggle

\* update leaves the GameState s.
Becomes(s) ==
    /\ size' = s.size /\ grid_mesh' = s.grid_mesh /\ grid_state' = s.grid_state
    /\ playing' = s.playing /\ last_update' = s.last_update
    /\ mouse_button_pressed_last_frame' = s.mouse_button_pressed_last_frame
    /\ save_key_pressed_last_frame' = s.save_key_pressed_last_frame
    /\ load_key_pressed_last_frame' = s.load_key_pressed_last_frame
    /\ play_key_pressed_last_frame' = s.play_key_pressed_last_frame
    /\ window' = s.window /\ status' = s.status

(***************************************************************************)
(* What the outside world draws from.                                      *)
(***************************************************************************)
\* The clock is monotonic: between two frames it stands still or advances by
\* one tick interval.
ClockSteps == {0, UpdateTickMs}

\* Pointer positions: the middle of every cell of a grid of up to MaxDim
\* columns and rows, one position past it, and one just left of / above it.
PointerCoords(cellLen) == {-5} \cup { cellLen * k + (cellLen \div 2) : k \in 0..MaxDim }
PointerPoints ==
    { <<x, y>> : x \in PointerCoords(CellWidth), y \in PointerCoords(CellHeight) }

\* A JSON file of rows of the given lengths, every element the token tok.
FileOfShape(shape, tok) ==
    [json |-> TRUE,
     rows |-> [r \in 1..Len(shape) |-> [c \in 1..shape[r] |-> tok]]]

\* The files a load can read: not JSON; JSON of another type; the empty array;
\* one empty row; rectangular grids; rows shorter or longer than the first.
FileShapes == { <<>>, <<0>>, <<1>>, <<1, 1>>, <<2, 1>>, <<1, 2>> }
Files ==
    {NoFile, FileOfShape(<<1>>, "0")}
        \cup { FileOfShape(shape, "false") : shape \in FileShapes }
        \cup { FileOfShape(<<1>>, "true") }

SaveResults == {"cancel", "create_fail", "write_fail", "ok"}
LoadResults == {"cancel", "open_fail", "read_fail", "read"}

\* Whether the frame with inputs in reaches the toggle of lines 258-259.
ToggleFires(s, in) ==
    /\ ~s.playing /\ s.mouse_button_pressed_last_frame /\ ~in.mouse
    /\ in.hit.ok /\ InBounds(s.grid_state, in.hit.y, in.hit.x)

\* Whether the frame with inputs in opens the save dialog, the load dialog.
SaveFires(s, in) == ~s.playing /\ ~s.save_key_pressed_last_frame /\ in.s_key
LoadFires(s, in) == ~s.playing /\ ~s.load_key_pressed_last_frame /\ in.l_key

\* Whether the frame with inputs in reaches line 291, which replaces the grid.
LoadReplaces(s, in) ==
    LoadFires(s, in) /\ in.load_result = "read" /\ from_str(in.contents).ok

\* One frame of event::run: update with the inputs in.  The program takes no
\* frame once it has panicked or update has returned an Err.
Frame(in) ==
    /\ status = "running"
    /\ \E after \in {update(Self, in)} :
           /\ Becomes(after)
           /\ toggle_hist' =
                IF ToggleFires(Self, in) /\ ~LoadReplaces(Self, in)
                  THEN [valid |-> TRUE, cell |-> in.hit, before |-> grid_state]
                ELSE IF after.grid_state = grid_state THEN toggle_hist
                ELSE NoToggle
    /\ now' = in.time
    /\ mouse_down' = in.mouse
    /\ ev' = in

\* The frames the outside world w can cause, given the sets it draws from:
\* the clock advances by one of w.dts, the button and the keys are in any
\* state of w.mouses, w.s_keys, w.l_keys and w.ret_keys, the pointer is at one
\* of w.points, the dialogs and the file system answer with one of
\* SaveResults, LoadResults and Files, and generate_grid_mesh and
\* update_window_size return Ok or Err.  The pointer, the dialogs and the
\* files are drawn only in a frame that reads them.
Frames(w) ==
    /\ status = "running"
    /\ \E dt \in { d \in w.dts : now + d <= MaxTime },
          mouse \in w.mouses, s_key \in w.s_keys, l_key \in w.l_keys,
          ret_key \in w.ret_keys :
      LET probe == [NoInput EXCEPT !.mouse = mouse, !.s_key = s_key,
                                   !.l_key = l_key]
          released == ~playing /\ mouse_button_pressed_last_frame /\ ~mouse
      IN
      \E hit \in (IF released
                    THEN UNION { calculate_grid_cell_indices(size, cell_size, pt) :
                                   pt \in w.points }
                    ELSE {NoCell}),
         save_result \in (IF SaveFires(Self, probe) THEN SaveResults ELSE {"none"}),
         load_result \in (IF LoadFires(Self, probe) THEN LoadResults ELSE {"none"}) :
        \E contents \in (IF load_result = "read" THEN Files ELSE {NoFile}) :
          LET parsed == from_str(contents)
              resizes == /\ parsed.ok /\ Len(parsed.value) > 0
                         /\ <<Len(parsed.value[1]), Len(parsed.value)>> # size
          IN
          \E mesh_ok \in (IF resizes THEN BOOLEAN ELSE {TRUE}) :
            \E window_ok \in (IF resizes /\ mesh_ok THEN BOOLEAN ELSE {TRUE}) :
              Frame([time |-> now + dt, mouse |-> mouse, hit |-> hit,
                        s_key |-> s_key, save_result |-> save_result,
                        l_key |-> l_key, load_result |-> load_result,
                        contents |-> contents, mesh_ok |-> mesh_ok,
                        window_ok |-> window_ok, ret_key |-> ret_key])

\* The default Spec holds the pointer at the middle of cell (0, 0), just left
\* of it, or past every cell.
PointerFew ==
    { <<CellWidth \div 2, CellHeight \div 2>>, <<-5, CellHeight \div 2>>,
      <<CellWidth * (MaxDim + 1), CellHeight * (MaxDim + 1)>> }

(***************************************************************************)
(* Spec: the program from GameState::new on; every key, every dialog and   *)
(* file outcome, the clock, and the pointer at the positions PointerFew.   *)
(***************************************************************************)
Init ==
    /\ StartsAs(GameState_new(<<InitCols, InitRows>>,
                              default_grid(<<InitCols, InitRows>>)))
    /\ call = NoCall /\ plan = NoPlan

Update ==
    /\ Frames([dts |-> ClockSteps, mouses |-> BOOLEAN, points |-> PointerFew,
               s_keys |-> BOOLEAN, l_keys |-> BOOLEAN, ret_keys |-> BOOLEAN])
    /\ UNCHANGED <<call, plan>>

Next == Update

Spec == Init /\ [][Next]_vars

(***************************************************************************)
(* SpecPointer: the pointer anywhere, the play key and the clock; the save *)
(* and load keys are never pressed.  It starts from GameState::new or from *)
(* the state a load of an all-dead file leaves (size taken from the file's *)
(* first row and row count, lines 291-299).                                *)
(***************************************************************************)
LoadedShapes == { shape \in FileShapes : Len(shape) > 0 }

GridOfShape(shape) == [r \in 1..Len(shape) |-> [c \in 1..shape[r] |-> FALSE]]

InitPointer ==
    /\ \/ StartsAs(GameState_new(<<InitCols, InitRows>>,
                                 default_grid(<<InitCols, InitRows>>)))
       \/ \E shape \in LoadedShapes :
            StartsAs(GameState_new(<<shape[1], Len(shape)>>, GridOfShape(shape)))
    /\ call = NoCall /\ plan = NoPlan

UpdatePointer ==
    /\ Frames([dts |-> ClockSteps, mouses |-> BOOLEAN, points |-> PointerPoints,
               s_keys |-> {FALSE}, l_keys |-> {FALSE}, ret_keys |-> BOOLEAN])
    /\ UNCHANGED <<call, plan>>

NextPointer == UpdatePointer

SpecPointer == InitPointer /\ [][NextPointer]_vars

(***************************************************************************)
(* SpecStep: update_grid_state called once on any grid of up to MaxDim     *)
(* rows and columns.                                                       *)
(***************************************************************************)
Grids(sz) == [1..sz[2] -> [1..sz[1] -> BOOLEAN]]

InitStep ==
    /\ \E sz \in (1..MaxDim) \X (1..MaxDim) : \E g \in Grids(sz) :
          StartsAs(GameState_new(sz, g))
    /\ call = NoCall /\ plan = NoPlan

CallUpdateGridState ==
    /\ call.fn = "none"
    /\ call' = [call EXCEPT !.fn = "update_grid_state",
                            !.grid_in = grid_state,
                            !.grid_out = update_grid_state(size, grid_state)]
    /\ UNCHANGED <<gameVars, worldVars, plan>>

NextStep == CallUpdateGridState

SpecStep == InitStep /\ [][NextStep]_vars

(***************************************************************************)
(* SpecCell: calculate_grid_cell_indices called once for any grid size of  *)
(* up to MaxDim and a point on, between, before or past the cells.         *)
(***************************************************************************)
CallCoords(cellLen) ==
    {-5, 0}
        \cup { cellLen * k : k \in 1..MaxDim }
        \cup { cellLen * k - 1 : k \in 1..MaxDim }
CallPoints ==
    { <<x, y>> : x \in CallCoords(CellWidth), y \in CallCoords(CellHeight) }

InitCell ==
    /\ \E sz \in (1..MaxDim) \X (1..MaxDim) :
          StartsAs(GameState_new(sz, default_grid(sz)))
    /\ \E pt \in CallPoints : call = [NoCall EXCEPT !.point = pt]
    /\ plan = NoPlan

CallCalculateGridCellIndices ==
    /\ call.fn = "none"
    /\ \E res \in calculate_grid_cell_indices(size, cell_size, call.point) :
          call' = [call EXCEPT !.fn = "calculate_grid_cell_indices",
                               !.cell_out = res]
    /\ UNCHANGED <<gameVars, worldVars, plan>>

NextCell == CallCalculateGridCellIndices

SpecCell == InitCell /\ [][NextCell]_vars

(***************************************************************************)
(* SpecBlinker: on an all-dead grid of 5 .. MaxBlinkerDim rows and columns *)
(* the user clicks the three cells (row, column-1), (row, column) and      *)
(* (row, column+1), whose neighbourhoods lie inside the grid, presses the  *)
(* play key, and lets two tick intervals pass.                             *)
(***************************************************************************)
\* The pixel in the middle of a cell.
MiddleOf(row, column) ==
    <<column * CellWidth + (CellWidth \div 2), row * CellHeight + (CellHeight \div 2)>>

\* The inputs of frame number step + 1 of the scenario.
BlinkerInput(p) ==
    LET quiet == [NoInput EXCEPT !.time = now]
        click(column) ==
            [quiet EXCEPT !.hit =
                CHOOSE h \in calculate_grid_cell_indices(
                                 size, cell_size, MiddleOf(p.row, column)) : TRUE]
    IN  CASE p.step \in {0, 2, 4} -> [quiet EXCEPT !.mouse = TRUE]
          [] p.step = 1 -> click(p.column - 1)
          [] p.step = 3 -> click(p.column)
          [] p.step = 5 -> click(p.column + 1)
          [] p.step = 6 -> [quiet EXCEPT !.ret_key = TRUE,
                                         !.time = now + UpdateTickMs]
          [] p.step = 7 -> quiet
          [] OTHER -> [quiet EXCEPT !.time = now + UpdateTickMs]

InitBlinker ==
    /\ \E sz \in (5..MaxBlinkerDim) \X (5..MaxBlinkerDim) :
          /\ StartsAs(GameState_new(sz, default_grid(sz)))
          /\ \E row \in 1..(sz[2] - 2), column \in 2..(sz[1] - 3) :
                plan = [row |-> row, column |-> column, step |-> 0]
    /\ call = NoCall

BlinkerFrame ==
    /\ plan.step < 9
    /\ Frame(BlinkerInput(plan))
    /\ plan' = [plan EXCEPT !.step = plan.step + 1]
    /\ UNCHANGED call

NextBlinker == BlinkerFrame

SpecBlinker == InitBlinker /\ [][NextBlinker]_vars

(***************************************************************************)
(* The claims.                                                             *)
(***************************************************************************)
\* Conway's rule on a bounded grid, stated on the set of neighbours: the
\* cells of the grid other than (r, c) at most one row and one column away.
ConwayStep(sz, g) ==
    [r \in 1..sz[2] |->
        [c \in 1..sz[1] |->
            LET n == Cardinality(
                       { q \in (1..sz[2]) \X (1..sz[1]) :
                           /\ q # <<r, c>>
                           /\ q[1] - r \in {-1, 0, 1}
                           /\ q[2] - c \in {-1, 0, 1}
                           /\ g[q[1]][q[2]] })
            IN  IF g[r][c] THEN n \in {2, 3} ELSE n = 3]]

\* C1: for every grid of at least 1 x 1, update_grid_state returns the Conway
\* step of the old grid on a bounded, non-wrapping grid, and the grid it was
\* given is as it was.
C1_UpdateGridStateIsConwayStep ==
    call.fn = "update_grid_state" =>
        /\ call.grid_out = ConwayStep(size, call.grid_in)
        /\ grid_state = call.grid_in

\* C1's case: a call in which one cell dies, one is born and one survives.
C1_Witness ==
    /\ call.fn = "update_grid_state"
    /\ \E r \in 1..size[2], c \in 1..size[1] :
          call.grid_in[r][c] /\ ~call.grid_out[r][c]
    /\ \E r \in 1..size[2], c \in 1..size[1] :
          ~call.grid_in[r][c] /\ call.grid_out[r][c]
    /\ \E r \in 1..size[2], c \in 1..size[1] :
          call.grid_in[r][c] /\ call.grid_out[r][c]

\* C2: calculate_grid_cell_indices returns "no cell" for a point with x < 0,
\* y < 0, x >= cols * cell_width or y >= rows * cell_height, and an index it
\* returns has col < cols and row < rows.
C2_OutsidePointIsNoCell ==
    call.fn = "calculate_grid_cell_indices" =>
        /\ ( \/ call.point[1] < 0
             \/ call.point[2] < 0
             \/ call.point[1] >= size[1] * CellWidth
             \/ call.point[2] >= size[2] * CellHeight ) => ~call.cell_out.ok
        /\ call.cell_out.ok =>
              call.cell_out.x < size[1] /\ call.cell_out.y < size[2]

\* Whether the frame with inputs in sees the play key go from up to down.
PlayKeyEdge(s, in) == ~s.play_key_pressed_last_frame /\ in.ret_key

\* Whether a file's contents describe a valid grid: they parse, there is at
\* least one row, and every row has the same positive length.
ValidGridFile(contents) ==
    LET parsed == from_str(contents)
    IN  /\ parsed.ok
        /\ Len(parsed.value) > 0
        /\ Len(parsed.value[1]) > 0
        /\ \A r \in 1..Len(parsed.value) :
              Len(parsed.value[r]) = Len(parsed.value[1])

\* Whether the stored grid has size.1 rows of size.0 cells each, both positive.
GridMatchesSize ==
    /\ size[1] > 0 /\ size[2] > 0
    /\ Len(grid_state) = size[2]
    /\ \A r \in 1..Len(grid_state) : Len(grid_state[r]) = size[1]

\* Whether the cached mesh and the window are those of the current size.
MeshAndWindowMatchSize ==
    /\ grid_mesh = generate_grid_mesh(size, cell_size)
    /\ Len(grid_mesh.vertical) = size[1] + 1
    /\ Len(grid_mesh.horizontal) = size[2] + 1
    /\ window = <<size[1] * CellWidth, size[2] * CellHeight>>

\* The ways the load branch ends the program: the panics of lines 287 and 293
\* and the Err of lines 297 and 298.
LoadFaults ==
    {"panicked at main.rs:287", "panicked at main.rs:293",
     "Err from main.rs:297", "Err from main.rs:298"}

\* C3: a frame that attempts a load (and toggles no cell) never ends the
\* program in the load branch; when the dialog is cancelled, the file cannot
\* be opened or read, or its contents are no valid grid, the grid, the size
\* and the mesh are as before; and the grid is replaced only together with a
\* size, mesh and window in line with it.
C3_LoadNeverCrashesNorHalfApplies ==
    [][ ( /\ status = "running"
          /\ LoadFires(Self, ev')
          /\ ~ToggleFires(Self, ev')
          /\ status' \notin {"panicked at main.rs:258", "panicked at main.rs:272"} )
        =>
        ( /\ status' \notin LoadFaults
          /\ ( ev'.load_result # "read" \/ ~ValidGridFile(ev'.contents) )
                => UNCHANGED <<grid_state, size, grid_mesh>>
          /\ grid_state' # grid_state
                => GridMatchesSize' /\ MeshAndWindowMatchSize' ) ]_vars

\* C4: in every state of the running program the grid is rectangular and
\* agrees with the size: rows > 0, cols > 0, `rows` rows of `cols` cells.
C4_GridAlwaysMatchesSize == status = "running" => GridMatchesSize

\* Grids with exactly the given cells alive, and the two lines of a scenario.
LineGrid(sz, cells) ==
    [r \in 1..sz[2] |-> [c \in 1..sz[1] |-> <<r - 1, c - 1>> \in cells]]
HorizontalLine(p) ==
    { <<p.row, p.column - 1>>, <<p.row, p.column>>, <<p.row, p.column + 1>> }
VerticalLine(p) ==
    { <<p.row - 1, p.column>>, <<p.row, p.column>>, <<p.row + 1, p.column>> }

\* C5: three clicks on a horizontal line of an all-dead grid, then one step:
\* exactly the vertical line through the middle cell is alive, which is not
\* the horizontal one; a second step: exactly the horizontal line again.
C5_BlinkerHasPeriodTwo ==
    /\ plan.step \in {6, 7} => grid_state = LineGrid(size, HorizontalLine(plan))
    /\ plan.step = 8 =>
          /\ grid_state = LineGrid(size, VerticalLine(plan))
          /\ grid_state # LineGrid(size, HorizontalLine(plan))
    /\ plan.step = 9 => grid_state = LineGrid(size, HorizontalLine(plan))
    /\ plan.step > 0 => status = "running"

\* C5's case: both steps done, from a line that is not in the middle row.
C5_Witness ==
    /\ plan.step = 9 /\ status = "running" /\ playing
    /\ plan.row = 1 /\ size[2] > 5

\* Whether grid h is grid g with exactly the cell hit negated.
FlippedAt(g, h, hit) ==
    /\ Len(h) = Len(g)
    /\ \A r \in 1..Len(g) :
          /\ Len(h[r]) = Len(g[r])
          /\ \A c \in 1..Len(g[r]) :
                h[r][c] = IF <<r - 1, c - 1>> = <<hit.y, hit.x>>
                            THEN ~g[r][c] ELSE g[r][c]

\* C6: a frame that toggles at an index negates that cell and leaves every
\* other cell and the size alone, and the playing flag too unless the play
\* key goes down in the same frame; a second toggle at the same index, with
\* no other change of the grid in between, restores the grid.
C6_ToggleFlipsExactlyOneCell ==
    [][ ( /\ status = "running"
          /\ ToggleFires(Self, ev')
          /\ ~LoadReplaces(Self, ev') )
        =>
        ( /\ FlippedAt(grid_state, grid_state', ev'.hit)
          /\ UNCHANGED <<size, grid_mesh, window>>
          /\ ~PlayKeyEdge(Self, ev') => playing' = playing
          /\ (toggle_hist.valid /\ toggle_hist.cell = ev'.hit)
                => grid_state' = toggle_hist.before ) ]_vars

\* C6's case: a cell of a grid of two columns was toggled on and then off.
C6_Witness ==
    /\ toggle_hist.valid /\ status = "running"
    /\ toggle_hist.cell = OkCell(1, 0)
    /\ Cell(toggle_hist.before, 0, 1) /\ ~Cell(grid_state, 0, 1)
    /\ \E r \in 1..Len(grid_state) : \E c \in 1..Len(grid_state[r]) :
          grid_state[r][c]

\* The state right after the play key turned playing on (line 316 sets
\* last_update one tick interval back).
JustTurnedOn == playing /\ ev.ret_key /\ last_update = now - UpdateTickMs

\* C7: playing flips exactly in the frames in which the play key goes from
\* up to down; the frame after it was turned on applies one automaton step;
\* and resetting the tick accumulator (line 316) never fails.
C7_PlayKeyFlipsAndFirstStepIsImmediate ==
    [][ ( status = "running"
          /\ status' \in {"running", "panicked at main.rs:316"} )
        =>
        ( /\ PlayKeyEdge(Self, ev') <=> (playing' # playing)
          /\ status' # "panicked at main.rs:316"
          /\ JustTurnedOn =>
                grid_state' = update_grid_state(size, grid_state) ) ]_vars

\* C8: a frame toggles a cell only if the automaton is paused and the left
\* button was down at the frame before and is up at this one.
C8_ToggleOnlyOnRelease ==
    [][ ( status = "running" /\ ToggleFires(Self, ev') )
        => ( ~playing /\ mouse_down /\ ~ev'.mouse ) ]_vars

\* C9: a frame that attempts a save never ends the program in the save
\* branch, whatever the dialog and the file system answer, and (when it does
\* nothing else) leaves the grid, the size and the playing flag as they were.
C9_SaveIsNoOpAndNeverCrashes ==
    [][ ( status = "running" /\ SaveFires(Self, ev') )
        =>
        ( /\ status' # "panicked at main.rs:272"
          /\ ( /\ ~ToggleFires(Self, ev')
               /\ ~LoadFires(Self, ev')
               /\ ~PlayKeyEdge(Self, ev') )
                => UNCHANGED <<grid_state, size, playing>> ) ]_vars

\* C10: while the program runs, the cached mesh is the one generated for the
\* current size (cols + 1 vertical and rows + 1 horizontal lines), the window
\* is cols * cell_width by rows * cell_height, and the size is the one derived
\* from the grid (rows = outer length, cols = length of the first row).
C10_MeshAndWindowFollowSize ==
    status = "running" =>
        /\ MeshAndWindowMatchSize
        /\ size = <<Len(grid_state[1]), Len(grid_state)>>

\* C10's case: a load has changed the size from the initial one.
C10_Witness ==
    /\ status = "running"
    /\ ev.load_result = "read" /\ from_str(ev.contents).ok
    /\ size # <<InitCols, InitRows>>
    /\ size = <<Len(grid_state[1]), Len(grid_state)>>
    /\ window = <<size[1] * CellWidth, size[2] * CellHeight>>

====
